---- MODULE Spec2Model ----
(***************************************************************************)
(* Model of the Mini Document Validator: the /validate pipeline of         *)
(* main.py (lifespan start-up, validate_document), the Gemini extractor    *)
(* of ai_extractor.py, the pydantic models of models.py and the four       *)
(* business rules of validation.py.                                        *)
(*                                                                         *)
(* Python strings are sequences of one-character strings, so that          *)
(* str.lower, str.strip, len, truthiness and datetime.strptime are         *)
(* computed on the characters.  A Python value is a record [t, s, n]:      *)
(* t is its type, s its characters when it is a str, n its number when it  *)
(* is an int/float/bool.                                                   *)
(***************************************************************************)
EXTENDS Integers, Sequences, FiniteSets, TLC

\* ------------------------------------------------------------ bounds

\* Number of validate_document requests in flight in one process.
NumRequests == 2

\* Largest number of entries of valid_vessels.json the rule specification draws.
MaxVessels == 2

\* ------------------------------------------------------------ Python values

None == [t |-> "none", s |-> <<>>, n |-> 0]

Str(chars) == [t |-> "str", s |-> chars, n |-> 0]

Num(k) == [t |-> "num", s |-> <<>>, n |-> k]

\* Python truthiness (`not x`, `x and y`): None, "", 0 and False are falsy.
Truthy(v) ==
    CASE v.t = "none" -> FALSE
      [] v.t = "str"  -> Len(v.s) > 0
      [] OTHER        -> v.n # 0

\* ------------------------------------------------------------ str methods

Whitespace == {" ", "\t", "\n"}

UpperToLower ==
    [c \in {"A", "B", "H", "M", "N", "V", "X"} |->
        CASE c = "A" -> "a" [] c = "B" -> "b" [] c = "H" -> "h"
          [] c = "M" -> "m" [] c = "N" -> "n" [] c = "V" -> "v"
          [] c = "X" -> "x"]

\* str.lower(): every cased character replaced by its lowercase form.
lower(chars) ==
    [i \in 1..Len(chars) |->
        IF chars[i] \in DOMAIN UpperToLower THEN UpperToLower[chars[i]]
        ELSE chars[i]]

RECURSIVE lstrip(_)
lstrip(chars) ==
    IF chars # <<>> /\ Head(chars) \in Whitespace THEN lstrip(Tail(chars))
    ELSE chars

RECURSIVE rstrip(_)
rstrip(chars) ==
    IF chars # <<>> /\ chars[Len(chars)] \in Whitespace
    THEN rstrip(SubSeq(chars, 1, Len(chars) - 1))
    ELSE chars

\* str.strip(): leading and trailing whitespace removed.
strip(chars) == rstrip(lstrip(chars))

\* ------------------------------------------------------------ numbers as text

Digits == {"0", "1", "2", "3", "4", "5", "6", "7", "8", "9"}

DigitVal(c) ==
    CASE c = "0" -> 0 [] c = "1" -> 1 [] c = "2" -> 2 [] c = "3" -> 3
      [] c = "4" -> 4 [] c = "5" -> 5 [] c = "6" -> 6 [] c = "7" -> 7
      [] c = "8" -> 8 [] c = "9" -> 9

DigitChar(k) ==
    CASE k = 0 -> "0" [] k = 1 -> "1" [] k = 2 -> "2" [] k = 3 -> "3"
      [] k = 4 -> "4" [] k = 5 -> "5" [] k = 6 -> "6" [] k = 7 -> "7"
      [] k = 8 -> "8" [] k = 9 -> "9"

AllDigits(chars) == chars # <<>> /\ \A i \in 1..Len(chars) : chars[i] \in Digits

RECURSIVE DigitsToNat(_)
DigitsToNat(chars) ==
    IF chars = <<>> THEN 0
    ELSE 10 * DigitsToNat(SubSeq(chars, 1, Len(chars) - 1))
         + DigitVal(chars[Len(chars)])

RECURSIVE NatToDigits(_)
NatToDigits(k) ==
    IF k < 10 THEN <<DigitChar(k)>>
    ELSE Append(NatToDigits(k \div 10), DigitChar(k % 10))

\* str(int): the decimal numeral.
IntRepr(k) == IF k < 0 THEN <<"-">> \o NatToDigits(0 - k) ELSE NatToDigits(k)

\* str(float) of an integral float, as an f-string prints insured_value:
\* the numeral followed by ".0".
FloatRepr(k) == IntRepr(k) \o <<".", "0">>

\* ------------------------------------------------------------ datetime.strptime

RECURSIVE Split(_, _)
\* str.split(sep) for a one-character separator.
Split(chars, sep) ==
    IF \A i \in 1..Len(chars) : chars[i] # sep THEN <<chars>>
    ELSE LET k == CHOOSE i \in 1..Len(chars) :
                      chars[i] = sep /\ \A j \in 1..(i - 1) : chars[j] # sep
         IN  <<SubSeq(chars, 1, k - 1)>> \o Split(SubSeq(chars, k + 1, Len(chars)), sep)

\* %Y : exactly four digits.
YearField(p) == Len(p) = 4 /\ AllDigits(p)

\* %m : 1[0-2] | 0[1-9] | [1-9]
MonthField(p) ==
    /\ AllDigits(p)
    /\ Len(p) \in {1, 2}
    /\ DigitsToNat(p) \in 1..12

\* %d : 3[01] | [12]\d | 0[1-9] | [1-9] | " "[1-9]
DayField(p) ==
    \/ AllDigits(p) /\ Len(p) \in {1, 2} /\ DigitsToNat(p) \in 1..31
    \/ Len(p) = 2 /\ p[1] = " " /\ p[2] \in (Digits \ {"0"})

IsLeap(y) == (y % 4 = 0 /\ y % 100 # 0) \/ y % 400 = 0

DaysInMonth(y, m) ==
    CASE m \in {1, 3, 5, 7, 8, 10, 12} -> 31
      [] m \in {4, 6, 9, 11}           -> 30
      [] OTHER                         -> IF IsLeap(y) THEN 29 ELSE 28

NoDate == [exc |-> "", y |-> 0, m |-> 0, d |-> 0]

\* datetime.strptime(v, "%Y-%m-%d"): the parsed date, or the exception raised
\* (TypeError for a non-str argument, ValueError when the text does not match
\* the format or names no calendar day).
strptime(v) ==
    IF v.t # "str" THEN [NoDate EXCEPT !.exc = "TypeError"]
    ELSE LET parts == Split(v.s, "-")
         IN  IF /\ Len(parts) = 3
                /\ YearField(parts[1])
                /\ MonthField(parts[2])
                /\ DayField(parts[3])
             THEN LET y == DigitsToNat(parts[1])
                      m == DigitsToNat(parts[2])
                      d == DigitsToNat(lstrip(parts[3]))
                  IN  IF y >= 1 /\ d <= DaysInMonth(y, m)
                      THEN [exc |-> "", y |-> y, m |-> m, d |-> d]
                      ELSE [NoDate EXCEPT !.exc = "ValueError"]
             ELSE [NoDate EXCEPT !.exc = "ValueError"]

\* datetime.__gt__: a > b, by year, then month, then day.
DateGt(a, b) ==
    \/ a.y > b.y
    \/ a.y = b.y /\ a.m > b.m
    \/ a.y = b.y /\ a.m = b.m /\ a.d > b.d

\* ------------------------------------------------------------ models.py

\* An f-string message: its template and the texts substituted into it.
Message(fmt, args) == [fmt |-> fmt, args |-> args]

\* str(e) of a caught exception, as substituted into a message.
ExcText(exc) == <<exc>>

PASS == "PASS"

FAIL == "FAIL"

ValidationResult(rule, status, message) ==
    [rule |-> rule, status |-> status, message |-> message]

NoResult == ValidationResult("", "", Message("", <<>>))

\* Outcome of a call: the value returned, or the exception that escapes it.
Return(v) == [raised |-> "", value |-> v]

Raise(exc, v) == [raised |-> exc, value |-> v]

ExtractedData(pn, vn, sd, ed, iv) ==
    [policy_number     |-> pn,
     vessel_name       |-> vn,
     policy_start_date |-> sd,
     policy_end_date   |-> ed,
     insured_value     |-> iv]

\* ------------------------------------------------------------ validation.py

DateRule == "Date Consistency"

ValueRule == "Value Check"

VesselRule == "Vessel Name Match"

CompletenessRule == "Completeness Check"

\* DocumentValidator.__init__: the object keeps the set it is given.
DocumentValidator(valid_vessels) == [is_none |-> FALSE, valid_vessels |-> valid_vessels]

\* Mutant: `end_date >= start_date`.
EndAfterStart_NotBefore(end_date, start_date) == ~DateGt(start_date, end_date)

\* The comparison `end_date > start_date` of the date rule.
EndAfterStart(end_date, start_date) == DateGt(end_date, start_date)

\* The try block of _validate_date_consistency.
DateConsistencyBody(data) ==
    IF ~Truthy(data.policy_start_date) \/ ~Truthy(data.policy_end_date)
    THEN Return(ValidationResult(DateRule, FAIL,
                    Message("Missing start or end date.", <<>>)))
    ELSE LET start_date == strptime(data.policy_start_date)
             end_date   == strptime(data.policy_end_date)
         IN  IF start_date.exc # "" THEN Raise(start_date.exc, NoResult)
             ELSE IF end_date.exc # "" THEN Raise(end_date.exc, NoResult)
             ELSE IF EndAfterStart(end_date, start_date)
             THEN Return(ValidationResult(DateRule, PASS,
                             Message("Policy end date is after start date.", <<>>)))
             ELSE Return(ValidationResult(DateRule, FAIL,
                             Message("Policy end date ({0}) must be after start date ({1}).",
                                     <<data.policy_end_date.s, data.policy_start_date.s>>)))

\* The except clauses of _validate_date_consistency: ValueError, then Exception.
DateConsistencyExcept(exc) ==
    IF exc = "ValueError"
    THEN Return(ValidationResult(DateRule, FAIL,
                    Message("Invalid date format: {0}", <<ExcText(exc)>>)))
    ELSE Return(ValidationResult(DateRule, FAIL,
                    Message("Date validation error: {0}", <<ExcText(exc)>>)))

\* Mutant: only `except ValueError`, any other exception escapes the rule.
validate_date_consistency_ValueErrorOnly(self, data) ==
    LET body == DateConsistencyBody(data)
    IN  IF body.raised = "ValueError" THEN DateConsistencyExcept(body.raised) ELSE body

validate_date_consistency(self, data) ==
    LET body == DateConsistencyBody(data)
    IN  IF body.raised = "" THEN body ELSE DateConsistencyExcept(body.raised)

\* Mutant: `data.insured_value >= 0`.
ValuePositive_OrZero(v) == v >= 0

\* The comparison `data.insured_value > 0` of the value rule.
ValuePositive(v) == v > 0

\* The try block of _validate_insured_value.
InsuredValueBody(data) ==
    LET v == data.insured_value
    IN  IF v.t = "none"
        THEN Return(ValidationResult(ValueRule, FAIL,
                        Message("Insured value is missing.", <<>>)))
        ELSE IF v.t = "str" THEN Raise("TypeError", NoResult)
        ELSE IF ValuePositive(v.n)
        THEN Return(ValidationResult(ValueRule, PASS,
                        Message("Insured value is valid.", <<>>)))
        ELSE Return(ValidationResult(ValueRule, FAIL,
                        Message("Insured value ({0}) must be greater than 0.",
                                <<FloatRepr(v.n)>>)))

validate_insured_value(self, data) ==
    LET body == InsuredValueBody(data)
    IN  IF body.raised = "" THEN body
        ELSE Return(ValidationResult(ValueRule, FAIL,
                        Message("Value validation error: {0}", <<ExcText(body.raised)>>)))

\* Mutant: the approved names compared as stored, not lower-cased.
valid_vessels_lower_AsStored(self) == self.valid_vessels

\* The set comprehension {v.lower() for v in self.valid_vessels}.
valid_vessels_lower(self) == {lower(v) : v \in self.valid_vessels}

\* The try block of _validate_vessel_name.
VesselNameBody(self, data) ==
    LET name == data.vessel_name
    IN  IF ~Truthy(name)
        THEN Return(ValidationResult(VesselRule, FAIL,
                        Message("Vessel name is missing.", <<>>)))
        ELSE IF name.t # "str" THEN Raise("AttributeError", NoResult)
        ELSE IF lower(name.s) \in valid_vessels_lower(self)
        THEN Return(ValidationResult(VesselRule, PASS,
                        Message("Vessel '{0}' is on the approved list.", <<name.s>>)))
        ELSE Return(ValidationResult(VesselRule, FAIL,
                        Message("Vessel '{0}' is not on the approved list.", <<name.s>>)))

validate_vessel_name(self, data) ==
    LET body == VesselNameBody(self, data)
    IN  IF body.raised = "" THEN body
        ELSE Return(ValidationResult(VesselRule, FAIL,
                        Message("Vessel validation error: {0}", <<ExcText(body.raised)>>)))

\* Mutant: `data.policy_number` tested without strip().
PolicyNumberStripped_NoStrip(chars) == chars

\* The condition `data.policy_number.strip()` of the completeness rule.
PolicyNumberStripped(chars) == strip(chars)

\* The try block of _validate_completeness.
CompletenessBody(data) ==
    LET pn == data.policy_number
    IN  IF ~Truthy(pn)
        THEN Return(ValidationResult(CompletenessRule, FAIL,
                        Message("Policy number is missing or empty.", <<>>)))
        ELSE IF pn.t # "str" THEN Raise("AttributeError", NoResult)
        ELSE IF Len(PolicyNumberStripped(pn.s)) > 0
        THEN Return(ValidationResult(CompletenessRule, PASS,
                        Message("Policy number is present.", <<>>)))
        ELSE Return(ValidationResult(CompletenessRule, FAIL,
                        Message("Policy number is missing or empty.", <<>>)))

validate_completeness(self, data) ==
    LET body == CompletenessBody(data)
    IN  IF body.raised = "" THEN body
        ELSE Return(ValidationResult(CompletenessRule, FAIL,
                        Message("Completeness validation error: {0}",
                                <<ExcText(body.raised)>>)))

\* results.append(rule(data)) for each rule of `calls` in turn; an exception
\* escaping a rule escapes validate, with the results appended so far lost.
RECURSIVE AppendAll(_, _)
AppendAll(results, calls) ==
    IF calls = <<>> THEN Return(results)
    ELSE IF Head(calls).raised # "" THEN Raise(Head(calls).raised, <<>>)
    ELSE AppendAll(Append(results, Head(calls).value), Tail(calls))

\* Mutant: the rules after the first FAIL are not run.
RECURSIVE AppendUntilFail(_, _)
AppendUntilFail(results, calls) ==
    IF calls = <<>> THEN Return(results)
    ELSE IF Head(calls).raised # "" THEN Raise(Head(calls).raised, <<>>)
    ELSE IF Head(calls).value.status = FAIL
    THEN Return(Append(results, Head(calls).value))
    ELSE AppendUntilFail(Append(results, Head(calls).value), Tail(calls))

validate_ShortCircuit(self, data) ==
    AppendUntilFail(<<>>, <<validate_date_consistency(self, data),
                            validate_insured_value(self, data),
                            validate_vessel_name(self, data),
                            validate_completeness(self, data)>>)

\* DocumentValidator.validate: the four rules, run in order and collected.
validate(self, data) ==
    AppendAll(<<>>, <<validate_date_consistency(self, data),
                      validate_insured_value(self, data),
                      validate_vessel_name(self, data),
                      validate_completeness(self, data)>>)

\* ------------------------------------------------------------ json.loads

\* A JSON text is a sequence of tokens [k, v]: punctuation "{" "}" "[" "]" ":"
\* ",", "lit" (a string, number or null literal, v its value), "ws"
\* (whitespace) and "bad" (anything that is no JSON token, such as prose or a
\* markdown fence).
Tok(k) == [k |-> k, v |-> None]

Lit(v) == [k |-> "lit", v |-> v]

NotParsed == [ok |-> FALSE, kind |-> "", pairs |-> <<>>, items |-> <<>>, scalar |-> None]

RECURSIVE SkipWs(_)
SkipWs(toks) ==
    IF toks = <<>> THEN <<>>
    ELSE IF Head(toks).k = "ws" THEN SkipWs(Tail(toks))
    ELSE <<Head(toks)>> \o SkipWs(Tail(toks))

\* The members of an object after "{" or ",": key ":" literal, then "," or "}".
RECURSIVE ParseMembers(_, _)
ParseMembers(toks, pairs) ==
    IF /\ Len(toks) >= 4
       /\ toks[1].k = "lit" /\ toks[1].v.t = "str"
       /\ toks[2].k = ":"
       /\ toks[3].k = "lit"
    THEN LET more == Append(pairs, [key |-> toks[1].v.s, val |-> toks[3].v])
         IN  IF toks[4].k = "}" /\ Len(toks) = 4
             THEN [NotParsed EXCEPT !.ok = TRUE, !.kind = "dict", !.pairs = more]
             ELSE IF toks[4].k = ","
             THEN ParseMembers(SubSeq(toks, 5, Len(toks)), more)
             ELSE NotParsed
    ELSE NotParsed

\* The elements of an array after "[" or ",": literal, then "," or "]".
RECURSIVE ParseElements(_, _)
ParseElements(toks, items) ==
    IF Len(toks) >= 2 /\ toks[1].k = "lit"
    THEN LET more == Append(items, toks[1].v)
         IN  IF toks[2].k = "]" /\ Len(toks) = 2
             THEN [NotParsed EXCEPT !.ok = TRUE, !.kind = "list", !.items = more]
             ELSE IF toks[2].k = ","
             THEN ParseElements(SubSeq(toks, 3, Len(toks)), more)
             ELSE NotParsed
    ELSE NotParsed

\* json.loads(text) for a literal, a flat object or a flat array; ok = FALSE
\* stands for json.JSONDecodeError.
json_loads(text) ==
    LET toks == SkipWs(text)
    IN  IF toks = <<>> THEN NotParsed
        ELSE IF Len(toks) = 1 /\ toks[1].k = "lit"
        THEN [NotParsed EXCEPT !.ok = TRUE, !.kind = "scalar", !.scalar = toks[1].v]
        ELSE IF toks[1].k = "{"
        THEN IF Len(toks) = 2 /\ toks[2].k = "}"
             THEN [NotParsed EXCEPT !.ok = TRUE, !.kind = "dict"]
             ELSE ParseMembers(Tail(toks), <<>>)
        ELSE IF toks[1].k = "["
        THEN IF Len(toks) = 2 /\ toks[2].k = "]"
             THEN [NotParsed EXCEPT !.ok = TRUE, !.kind = "list"]
             ELSE ParseElements(Tail(toks), <<>>)
        ELSE NotParsed

\* dict.get(key): the value of the last member named key (a later duplicate
\* replaces an earlier one), None when there is none.
RECURSIVE DictGet(_, _)
DictGet(pairs, key) ==
    IF pairs = <<>> THEN None
    ELSE IF pairs[Len(pairs)].key = key THEN pairs[Len(pairs)].val
    ELSE DictGet(SubSeq(pairs, 1, Len(pairs) - 1), key)

\* ------------------------------------------------------------ ExtractedData(**d)

\* float(text) of pydantic's lax str -> float coercion: an optional sign and
\* digits.
IsNumeral(chars) ==
    \/ AllDigits(chars)
    \/ Len(chars) >= 2 /\ chars[1] = "-" /\ AllDigits(Tail(chars))

NumeralValue(chars) ==
    IF chars[1] = "-" THEN 0 - DigitsToNat(Tail(chars)) ELSE DigitsToNat(chars)

\* An Optional[str] field: None or a str is kept, anything else is an error.
OptionalStr(v) ==
    IF v.t \in {"none", "str"} THEN Return(v) ELSE Raise("ValidationError", None)

\* Mutant: a date that does not parse is dropped instead of rejected.
validate_date_format_Lenient(v) ==
    IF v.t = "none" THEN Return(v)
    ELSE IF strptime(v).exc = "" THEN Return(v)
    ELSE Return(None)

\* ExtractedData.validate_date_format, run on the str the field accepted.
validate_date_format(v) ==
    IF v.t = "none" THEN Return(v)
    ELSE IF strptime(v).exc = "" THEN Return(v)
    ELSE Raise("ValueError", None)

\* A date field: the Optional[str] check, then validate_date_format.
DateField(v) ==
    IF OptionalStr(v).raised # "" THEN OptionalStr(v) ELSE validate_date_format(v)

\* ExtractedData.validate_insured_value, run on the float the field produced.
validate_insured_value_field(v) ==
    IF v.t = "none" THEN Return(v)
    ELSE IF v.t # "num" THEN Raise("ValueError", None)
    ELSE Return(Num(v.n))

\* The Optional[float] field: a number is kept, a numeral str is converted, and
\* the result goes through validate_insured_value.
FloatField(v) ==
    CASE v.t = "none" -> validate_insured_value_field(v)
      [] v.t = "num"  -> validate_insured_value_field(v)
      [] v.t = "str" /\ IsNumeral(v.s) -> validate_insured_value_field(Num(NumeralValue(v.s)))
      [] OTHER -> Raise("ValidationError", None)

NoData == ExtractedData(None, None, None, None, None)

PolicyNumberKey == <<"policy_number">>

VesselNameKey == <<"vessel_name">>

StartDateKey == <<"policy_start_date">>

EndDateKey == <<"policy_end_date">>

InsuredValueKey == <<"insured_value">>

\* ExtractedData(**extracted_dict): TypeError when the parsed JSON is no
\* object, ValidationError when any field is rejected; unknown keys are ignored
\* and a missing key takes the default None.
NewExtractedData(parsed) ==
    IF parsed.kind # "dict" THEN Raise("TypeError", NoData)
    ELSE LET pn == OptionalStr(DictGet(parsed.pairs, PolicyNumberKey))
             vn == OptionalStr(DictGet(parsed.pairs, VesselNameKey))
             sd == DateField(DictGet(parsed.pairs, StartDateKey))
             ed == DateField(DictGet(parsed.pairs, EndDateKey))
             iv == FloatField(DictGet(parsed.pairs, InsuredValueKey))
         IN  IF \E f \in {pn, vn, sd, ed, iv} : f.raised # ""
             THEN Raise("ValidationError", NoData)
             ELSE Return(ExtractedData(pn.value, vn.value, sd.value, ed.value, iv.value))

\* ------------------------------------------------------------ ai_extractor.py

EmptyResponse == "Empty response received from Gemini AI"

InvalidResponse == "Invalid JSON response from AI: {0}"

ValidationFailed == "Extracted data validation failed: {0}"

ExtractionFailed == "AI extraction failed: {0}"

\* What self.model.generate_content(prompt) does: raises exc, or returns a
\* response object (None when response = FALSE) carrying text.
Generated(exc, response, text) == [exc |-> exc, response |-> response, text |-> text]

NotGenerated == Generated("", FALSE, <<>>)

\* Outcome of extract_fields: the record returned, or the exception raised
\* with its message.
Extracted(data) == [raised |-> "", msg |-> Message("", <<>>), value |-> data]

ExtractError(exc, msg) == [raised |-> exc, msg |-> msg, value |-> NoData]

NotExtracted == ExtractError("", Message("", <<>>))

\* Lines 118-126: construct ExtractedData, any exception becoming ValueError.
ValidateExtracted(parsed) ==
    LET built == NewExtractedData(parsed)
    IN  IF built.raised = "" THEN Extracted(built.value)
        ELSE ExtractError("ValueError",
                 Message(ValidationFailed, <<ExcText(built.raised)>>))

\* AIExtractor.extract_fields, given what generate_content did.
extract_fields(self, ai) ==
    IF ai.exc = "ValueError"
    THEN ExtractError("ValueError", Message("{0}", <<ExcText("provider")>>))
    ELSE IF ai.exc # ""
    THEN ExtractError("ValueError", Message(ExtractionFailed, <<ExcText(ai.exc)>>))
    ELSE IF ~ai.response \/ ai.text = <<>>
    THEN ExtractError("ValueError", Message(EmptyResponse, <<>>))
    ELSE LET extracted_dict == json_loads(ai.text)
         IN  IF ~extracted_dict.ok
             THEN ExtractError("ValueError",
                      Message(InvalidResponse, <<ExcText("JSONDecodeError")>>))
             ELSE ValidateExtracted(extracted_dict)

\* ------------------------------------------------------------ utils.py

\* valid_vessels.json: absent, or its content as a JSON text.
VesselsFile(exists, text) == [exists |-> exists, text |-> text]

IsStrList(items) == \A i \in 1..Len(items) : items[i].t = "str"

\* load_valid_vessels: the set of names, or the exception raised.
load_valid_vessels(file) ==
    IF ~file.exists THEN Raise("FileNotFoundError", {})
    ELSE LET vessels_data == json_loads(file.text)
         IN  IF ~vessels_data.ok THEN Raise("ValueError", {})
             ELSE IF vessels_data.kind # "list" THEN Raise("ValueError", {})
             ELSE IF ~IsStrList(vessels_data.items) THEN Raise("ValueError", {})
             ELSE Return({vessels_data.items[i].s : i \in 1..Len(vessels_data.items)})

\* ------------------------------------------------------------ sample inputs

D_2025_11_01 == Str(<<"2", "0", "2", "5", "-", "1", "1", "-", "0", "1">>)

D_2025_11_1 == Str(<<"2", "0", "2", "5", "-", "1", "1", "-", "1">>)

D_2026_10_31 == Str(<<"2", "0", "2", "6", "-", "1", "0", "-", "3", "1">>)

D_2024_02_29 == Str(<<"2", "0", "2", "4", "-", "0", "2", "-", "2", "9">>)

D_2025_02_30 == Str(<<"2", "0", "2", "5", "-", "0", "2", "-", "3", "0">>)

D_Slashes == Str(<<"0", "1", "/", "1", "1", "/", "2", "0", "2", "5">>)

HM_1 == Str(<<"H", "M", "-", "1">>)

MV_N == Str(<<"M", "V", " ", "N">>)

mv_n == Str(<<"m", "v", " ", "n">>)

MV_X == Str(<<"M", "V", " ", "X">>)

Blank == Str(<<" ", "\t">>)

\* The JSON object with the five keys of the prompt, in its order.
Obj(pn, vn, sd, ed, iv) ==
    <<Tok("{"),
      Lit(Str(PolicyNumberKey)), Tok(":"), Lit(pn), Tok(","),
      Lit(Str(VesselNameKey)),   Tok(":"), Lit(vn), Tok(","),
      Lit(Str(StartDateKey)),    Tok(":"), Lit(sd), Tok(","),
      Lit(Str(EndDateKey)),      Tok(":"), Lit(ed), Tok(","),
      Lit(Str(InsuredValueKey)), Tok(":"), Lit(iv),
      Tok("}")>>

\* Texts the model can answer with.
ResponseTexts ==
    { Obj(HM_1, MV_N, D_2025_11_01, D_2026_10_31, Num(5000000)),
      Obj(HM_1, mv_n, D_2025_11_01, D_2025_11_1, Num(-100)),
      Obj(Blank, MV_X, D_2026_10_31, D_2025_11_01, Str(<<"5", "0">>)),
      Obj(None, None, None, None, None),
      Obj(HM_1, MV_N, D_Slashes, D_2026_10_31, Num(1)),
      Obj(HM_1, MV_N, D_2025_11_01, D_2025_02_30, Num(1)),
      Obj(HM_1, MV_N, D_2025_11_01, D_2026_10_31, Str(<<"I", "N", "R", " ", "5">>)),
      Obj(Num(7), MV_N, D_2025_11_01, D_2026_10_31, Num(1)),
      <<Tok("ws"), Tok("{"), Lit(Str(VesselNameKey)), Tok(":"), Lit(MV_X), Tok(","),
        Lit(Str(<<"currency">>)), Tok(":"), Lit(Str(<<"I", "N", "R">>)), Tok(","),
        Lit(Str(VesselNameKey)), Tok(":"), Lit(MV_N), Tok("}"), Tok("ws")>>,
      <<Tok("{"), Lit(Str(PolicyNumberKey)), Tok(":"), Lit(HM_1)>>,
      <<Tok("bad"), Tok("{"), Tok("}"), Tok("bad"), Tok("ws")>>,
      <<Tok("["), Lit(MV_N), Tok("]")>> }

\* Everything generate_content can do for one prompt.
Generations ==
    {Generated("", TRUE, t) : t \in ResponseTexts}
        \cup { Generated("", TRUE, <<>>),
               Generated("", FALSE, <<>>),
               Generated("Exception", FALSE, <<>>),
               Generated("ValueError", FALSE, <<>>) }

\* Texts a client can post.
RequestTexts == { <<>>, <<" ", "\n">>, <<" ", "d", "o", "c">> }

\* Contents valid_vessels.json can have at start-up.
VesselsFiles ==
    { VesselsFile(FALSE, <<>>),
      VesselsFile(TRUE, <<Tok("["), Lit(MV_N), Tok(",")>>),
      VesselsFile(TRUE, <<Tok("{"), Tok("}")>>),
      VesselsFile(TRUE, <<Tok("["), Lit(MV_N), Tok(","), Lit(Num(1)), Tok("]")>>),
      VesselsFile(TRUE, <<Tok("["), Lit(MV_N), Tok(","), Lit(MV_N), Tok("]")>>),
      VesselsFile(TRUE, <<Tok("["), Lit(mv_n), Tok(","), Lit(Str(<<>>)), Tok("]")>>) }

\* ------------------------------------------------------------ main.py

VARIABLES
    app,           \* lifespan: "starting", "serving", "failed" or "stopped"
    ai_extractor,  \* the global ai_extractor: None or the AIExtractor
    validator,     \* the global validator: None or the DocumentValidator
    req,           \* req[r]: the state of request r of POST /validate
    unit,          \* a direct call of DocumentValidator.validate: input and outcome
    env            \* the process environment: GEMINI_API_KEY, Gemini set-up, vessels file

vars == <<app, ai_extractor, validator, req, unit, env>>

Requests == 1..NumRequests

NoObject == [is_none |-> TRUE, valid_vessels |-> {}]

\* AIExtractor.__init__: ValueError without GEMINI_API_KEY or when the Gemini
\* client cannot be configured.
AIExtractor(api_key, configured) ==
    IF ~api_key \/ ~configured THEN Raise("ValueError", NoObject)
    ELSE Return([is_none |-> FALSE, valid_vessels |-> {}])

NoBody == [extracted_data |-> NoData, validation_results |-> <<>>]

NoResponse == [status_code |-> 0, detail |-> Message("", <<>>), body |-> NoBody]

HTTPException(status_code, detail) ==
    [status_code |-> status_code, detail |-> detail, body |-> NoBody]

ValidationResponse(extracted_data, validation_results) ==
    [status_code |-> 200,
     detail      |-> Message("", <<>>),
     body        |-> [extracted_data |-> extracted_data,
                      validation_results |-> validation_results]]

NewRequest ==
    [pc |-> "new", text |-> <<>>, ai_calls |-> 0, ai |-> NotGenerated,
     extracted |-> NotExtracted, validate_calls |-> 0, response |-> NoResponse]

\* DocumentRequest.text: Field(..., min_length=1).
DocumentRequestOk(text) == Len(text) >= 1

\* Mutant: `not request.text`, without the strip().
TextIsEmpty_NoStrip(text) == Len(text) = 0

\* Line 108: `not request.text or not request.text.strip()`.
TextIsEmpty(text) == Len(text) = 0 \/ Len(strip(text)) = 0

\* Line 101: `not ai_extractor or not validator`.
NotInitialized(extractor, val) == extractor.is_none \/ val.is_none

\* Lines 101-112: the response the checks before the try block raise, or
\* NoResponse when the request goes on to extraction.
EarlyResponse(extractor, val, text) ==
    IF NotInitialized(extractor, val)
    THEN HTTPException(500,
             Message("Service not properly initialized. Please try again later.", <<>>))
    ELSE IF TextIsEmpty(text)
    THEN HTTPException(400, Message("Document text cannot be empty", <<>>))
    ELSE NoResponse

\* Lines 132-140: the HTTPException an exception of the try block becomes.
ExceptResponse(exc, msg) ==
    IF exc = "ValueError" THEN HTTPException(400, msg)
    ELSE HTTPException(500, Message("Internal server error: {0}", <<ExcText(exc)>>))

\* Mutant: the extractor's exception is swallowed and validation goes on.
ValidatorInvoked_Always(extracted) == TRUE

\* Whether line 123 runs: extract_fields returned instead of raising.
ValidatorInvoked(extracted) == extracted.raised = ""

\* Mutant: a document that fails a rule is answered with an error.
FinalResponse_RejectInvalid(val, extracted) ==
    IF ~ValidatorInvoked(extracted)
    THEN ExceptResponse(extracted.raised, extracted.msg)
    ELSE LET validation_results == validate(val, extracted.value)
         IN  IF \E i \in 1..Len(validation_results.value) :
                    validation_results.value[i].status = FAIL
             THEN HTTPException(400, Message("Document failed validation", <<>>))
             ELSE ValidationResponse(extracted.value, validation_results.value)

\* Lines 118-140 after extract_fields: validate and answer, or translate the
\* exception.
FinalResponse(val, extracted) ==
    IF ~ValidatorInvoked(extracted)
    THEN ExceptResponse(extracted.raised, extracted.msg)
    ELSE LET validation_results == validate(val, extracted.value)
         IN  IF validation_results.raised = ""
             THEN ValidationResponse(extracted.value, validation_results.value)
             ELSE ExceptResponse(validation_results.raised,
                                 Message("{0}", <<ExcText(validation_results.raised)>>))

\* Mutant: a failed initialisation is logged and the application serves anyway.
Startup_ServeAnyway ==
    /\ app = "starting"
    /\ LET extractor == AIExtractor(env.api_key, env.configured)
           vessels   == load_valid_vessels(env.file)
       IN  /\ app' = "serving"
           /\ ai_extractor' = IF extractor.raised = "" THEN extractor.value ELSE ai_extractor
           /\ validator' = IF extractor.raised = "" /\ vessels.raised = ""
                           THEN DocumentValidator(vessels.value) ELSE validator
    /\ UNCHANGED <<req, unit, env>>

\* lifespan, up to the yield: the three initialisations in order; the first
\* exception is re-raised and the application never serves.
Startup ==
    /\ app = "starting"
    /\ LET extractor == AIExtractor(env.api_key, env.configured)
           vessels   == load_valid_vessels(env.file)
       IN      IF extractor.raised # ""
               THEN /\ app' = "failed"
                    /\ UNCHANGED <<ai_extractor, validator>>
               ELSE IF vessels.raised # ""
               THEN /\ app' = "failed"
                    /\ ai_extractor' = extractor.value
                    /\ UNCHANGED validator
               ELSE /\ app' = "serving"
                    /\ ai_extractor' = extractor.value
                    /\ validator' = DocumentValidator(vessels.value)
    /\ UNCHANGED <<req, unit, env>>

\* lifespan after the yield: the finally clause only logs.
Shutdown ==
    /\ app = "serving"
    /\ \A r \in Requests : req[r].pc \in {"new", "done"}
    /\ app' = "stopped"
    /\ UNCHANGED <<ai_extractor, validator, req, unit, env>>

\* A client posts a body; FastAPI builds the DocumentRequest and answers 422
\* itself when pydantic rejects it.
Post(r) ==
    /\ app = "serving"
    /\ req[r].pc = "new"
    /\ \E text \in RequestTexts :
           req' = [req EXCEPT ![r] =
                      IF DocumentRequestOk(text)
                      THEN [@ EXCEPT !.pc = "handler", !.text = text]
                      ELSE [@ EXCEPT !.pc = "done", !.text = text,
                                     !.response = HTTPException(422,
                                         Message("String should have at least 1 character", <<>>))]]
    /\ UNCHANGED <<app, ai_extractor, validator, unit, env>>

\* validate_document, lines 101-112.
EnterHandler(r) ==
    /\ req[r].pc = "handler"
    /\ LET early == EarlyResponse(ai_extractor, validator, req[r].text)
       IN  req' = [req EXCEPT ![r] =
                      IF early = NoResponse THEN [@ EXCEPT !.pc = "extract"]
                      ELSE [@ EXCEPT !.pc = "done", !.response = early]]
    /\ UNCHANGED <<app, ai_extractor, validator, unit, env>>

\* Mutant: a failed extraction is tried once more.
ExtractFields_Retry(r) ==
    /\ req[r].pc = "extract"
    /\ \E ai \in Generations :
           LET extracted == extract_fields(ai_extractor, ai)
           IN  req' = [req EXCEPT ![r] =
                          [@ EXCEPT !.pc = IF extracted.raised # "" /\ req[r].ai_calls = 0
                                           THEN "extract" ELSE "extracted",
                                    !.ai = ai, !.ai_calls = @ + 1,
                                    !.extracted = extracted]]
    /\ UNCHANGED <<app, ai_extractor, validator, unit, env>>

\* The call of extract_fields at line 118: the prompt is sent once, the
\* provider answers, and extract_fields returns the record or raises.
ExtractFields(r) ==
    /\ req[r].pc = "extract"
    /\ \E ai \in Generations :
           req' = [req EXCEPT ![r] =
                      [@ EXCEPT !.pc = "extracted", !.ai = ai, !.ai_calls = @ + 1,
                                !.extracted = extract_fields(ai_extractor, ai)]]
    /\ UNCHANGED <<app, ai_extractor, validator, unit, env>>

\* Mutant: a vessel name that was validated is added to the approved set.
Respond_LearnsVessel(r) ==
    /\ req[r].pc = "extracted"
    /\ req' = [req EXCEPT ![r] =
                  [@ EXCEPT !.pc = "done",
                            !.validate_calls =
                                IF ValidatorInvoked(req[r].extracted) THEN @ + 1 ELSE @,
                            !.response = FinalResponse(validator, req[r].extracted)]]
    /\ validator' =
           IF ValidatorInvoked(req[r].extracted)
              /\ req[r].extracted.value.vessel_name.t = "str"
           THEN [validator EXCEPT !.valid_vessels =
                    @ \cup {req[r].extracted.value.vessel_name.s}]
           ELSE validator
    /\ UNCHANGED <<app, ai_extractor, unit, env>>

\* validate_document, lines 120-140: validate and return, or raise.
Respond(r) ==
    /\ req[r].pc = "extracted"
    /\ req' = [req EXCEPT ![r] =
                  [@ EXCEPT !.pc = "done",
                            !.validate_calls =
                                IF ValidatorInvoked(req[r].extracted) THEN @ + 1 ELSE @,
                            !.response = FinalResponse(validator, req[r].extracted)]]
    /\ UNCHANGED <<app, ai_extractor, validator, unit, env>>

NoUnit == [pc |-> "none", self |-> NoObject, data |-> NoData, outcome |-> Return(<<>>)]

Environment(api_key, configured, file) ==
    [api_key |-> api_key, configured |-> configured, file |-> file]

\* Every environment the process can be started in.
Environments ==
    {Environment(k, c, f) : k \in BOOLEAN, c \in BOOLEAN, f \in VesselsFiles}

NoEnvironment == Environment(FALSE, FALSE, VesselsFile(FALSE, <<>>))

Init ==
    /\ app = "starting"
    /\ ai_extractor = NoObject
    /\ validator = NoObject
    /\ req = [r \in Requests |-> NewRequest]
    /\ unit = NoUnit
    /\ env \in Environments

Next ==
    \/ Startup
    \/ Shutdown
    \/ \E r \in Requests : Post(r)
    \/ \E r \in Requests : EnterHandler(r)
    \/ \E r \in Requests : ExtractFields(r)
    \/ \E r \in Requests : Respond(r)

Spec == Init /\ [][Next]_vars

\* ------------------------------------------------------------ the validator alone

\* Field values a caller can hand to DocumentValidator.validate.  A record
\* built by ExtractedData(...) holds None or a str in the four text fields,
\* with dates that parse, and None or a float in insured_value; assigning to a
\* field or model_construct bypasses those checks, so unparseable dates and
\* values of another type are drawn too.
DateInputs ==
    {None, Str(<<>>), D_2025_11_01, D_2025_11_1, D_2026_10_31, D_2024_02_29,
     D_2025_02_30, Num(20251101)}

ValueInputs == {None, Num(-100), Num(0), Num(1), Num(5000000), Str(<<"5">>)}

VesselInputs == {None, Str(<<>>), MV_N, mv_n, MV_X, Num(7)}

PolicyInputs == {None, Str(<<>>), Blank, HM_1, Str(<<" ", "A", "\n">>), Num(7)}

VesselPool == {MV_N.s, mv_n.s, <<"M", "v", " ", "B">>, <<>>}

VesselSets == {vs \in SUBSET VesselPool : Cardinality(vs) <= MaxVessels}

InitRules ==
    /\ app = "starting"
    /\ ai_extractor = NoObject
    /\ validator = NoObject
    /\ req = [r \in Requests |-> NewRequest]
    /\ env = NoEnvironment
    /\ \E vs \in VesselSets, pn \in PolicyInputs, vn \in VesselInputs,
          sd \in DateInputs, ed \in DateInputs, iv \in ValueInputs :
           unit = [pc      |-> "input",
                   self    |-> DocumentValidator(vs),
                   data    |-> ExtractedData(pn, vn, sd, ed, iv),
                   outcome |-> Return(<<>>)]

\* validator.validate(data), called on its own.
CallValidate ==
    /\ unit.pc = "input"
    /\ unit' = [unit EXCEPT !.pc = "returned",
                            !.outcome = validate(unit.self, unit.data)]
    /\ UNCHANGED <<app, ai_extractor, validator, req, env>>

NextRules == CallValidate

SpecRules == InitRules /\ [][NextRules]_vars

\* ------------------------------------------------------------ properties of the rules

\* The i-th result of the direct call, once it has returned.
RuleResult(i) ==
    IF unit.pc \in {"returned", "again"} /\ unit.outcome.raised = "" /\ Len(unit.outcome.value) >= i
    THEN unit.outcome.value[i]
    ELSE NoResult

RuleNames == <<DateRule, ValueRule, VesselRule, CompletenessRule>>

\* Days of a parsed date on a scale that orders dates as the calendar does.
Ordinal(date) == date.y * 372 + date.m * 31 + date.d

IsPrefix(p, chars) == Len(p) <= Len(chars) /\ SubSeq(chars, 1, Len(p)) = p

\* C4: validate returns exactly four results, named Date Consistency, Value
\* Check, Vessel Name Match, Completeness Check in this order, each with status
\* PASS or FAIL and a non-empty message, whatever the record and the approved
\* set are: no rule is skipped because an earlier one failed.
C4_FourResultsInOrder ==
    unit.pc = "returned" =>
        /\ unit.outcome.raised = ""
        /\ Len(unit.outcome.value) = 4
        /\ \A i \in 1..4 :
               /\ unit.outcome.value[i].rule = RuleNames[i]
               /\ unit.outcome.value[i].status \in {PASS, FAIL}
               /\ unit.outcome.value[i].message.fmt # ""

\* A call whose first rule fails and whose last rule still passes.
C4_Witness ==
    /\ unit.pc = "returned"
    /\ RuleResult(1).status = FAIL
    /\ RuleResult(2).status = FAIL
    /\ RuleResult(4).status = PASS

\* C5: no exception escapes a rule: when the try block of a rule raises (a date
\* that does not parse, a field of another type), validate still returns, and
\* that rule's result is FAIL with a message that carries the exception.
C5_RulesNeverRaise ==
    unit.pc = "returned" =>
        /\ unit.outcome.raised = ""
        /\ Len(unit.outcome.value) = 4
        /\ \A i \in 1..4 :
               LET body == CASE i = 1 -> DateConsistencyBody(unit.data)
                             [] i = 2 -> InsuredValueBody(unit.data)
                             [] i = 3 -> VesselNameBody(unit.self, unit.data)
                             [] i = 4 -> CompletenessBody(unit.data)
               IN  body.raised # "" =>
                       /\ unit.outcome.value[i].rule = RuleNames[i]
                       /\ unit.outcome.value[i].status = FAIL
                       /\ unit.outcome.value[i].message.fmt # ""
                       /\ unit.outcome.value[i].message.args = <<ExcText(body.raised)>>

\* A call with a start date that is a str but no YYYY-MM-DD date, and an end
\* date that is no str at all.
C5_Witness ==
    /\ unit.pc = "returned"
    /\ unit.data.policy_start_date = D_2025_02_30
    /\ unit.data.policy_end_date.t = "num"
    /\ unit.data.policy_number.t = "num"
    /\ RuleResult(1).status = FAIL

\* C6: for two dates that parse, Date Consistency is PASS when the end is
\* strictly after the start and FAIL, with a message citing both dates, when it
\* is the same day or earlier; when either date is None it is FAIL with
\* "Missing start or end date.".
C6_DateConsistency ==
    unit.pc = "returned" =>
        LET sd == unit.data.policy_start_date
            ed == unit.data.policy_end_date
            r  == RuleResult(1)
        IN  /\ (sd.t = "none" \/ ed.t = "none") =>
                   /\ r.status = FAIL
                   /\ r.message = Message("Missing start or end date.", <<>>)
            /\ (sd.t = "str" /\ ed.t = "str" /\ strptime(sd).exc = "" /\ strptime(ed).exc = "") =>
                   IF Ordinal(strptime(ed)) > Ordinal(strptime(sd))
                   THEN r.status = PASS
                   ELSE /\ r.status = FAIL
                        /\ \E i, j \in 1..Len(r.message.args) :
                               r.message.args[i] = ed.s /\ r.message.args[j] = sd.s /\ i # j

\* The same day written in two ways: the end is not after the start.
C6_Witness ==
    /\ unit.pc = "returned"
    /\ unit.data.policy_start_date = D_2025_11_01
    /\ unit.data.policy_end_date = D_2025_11_1
    /\ RuleResult(1).status = FAIL

\* C7: for a record whose insured_value is None or a number, Value Check is
\* PASS exactly when the value is a number greater than 0; for 0 or a negative
\* number it is FAIL with a message that cites the value, and for None it is
\* FAIL with "Insured value is missing.".
C7_ValueCheck ==
    unit.pc = "returned" =>
        LET v == unit.data.insured_value
            r == RuleResult(2)
        IN  /\ v.t = "none" =>
                   /\ r.status = FAIL
                   /\ r.message = Message("Insured value is missing.", <<>>)
            /\ v.t = "num" =>
                   /\ r.status = PASS <=> v.n >= 1
                   /\ v.n < 1 =>
                          /\ r.status = FAIL
                          /\ Len(r.message.args) = 1
                          /\ IsPrefix(IntRepr(v.n), r.message.args[1])

\* An insured value of -100.
C7_Witness ==
    /\ unit.pc = "returned"
    /\ unit.data.insured_value = Num(-100)
    /\ RuleResult(2).status = FAIL
    /\ RuleResult(2).message.args = <<<<"-", "1", "0", "0", ".", "0">>>>

\* The approved set holds a name equal to chars when both are lower-cased.
Approved(self, chars) == \E e \in self.valid_vessels : lower(e) = lower(chars)

\* C8 as stated: for every vessel_name str, Vessel Name Match is PASS when the
\* lower-cased name equals the lower-cased form of an approved name and FAIL
\* otherwise or when the name is None, and the message cites the name in the
\* matching and in the non-matching outcome.
C8_AsStated ==
    unit.pc = "returned" =>
        LET name == unit.data.vessel_name
            r    == RuleResult(3)
        IN  /\ name.t = "none" => r.status = FAIL
            /\ name.t = "str" =>
                   /\ r.status = (IF Approved(unit.self, name.s) THEN PASS ELSE FAIL)
                   /\ name.s # <<>> => r.message.args = <<name.s>>

\* C8, amended: the same for every non-empty vessel_name str; for the empty str,
\* as for None, Vessel Name Match is FAIL with "Vessel name is missing.", also
\* when the approved set holds the empty name.
C8_VesselNameMatch ==
    unit.pc = "returned" =>
        LET name == unit.data.vessel_name
            r    == RuleResult(3)
        IN  /\ (name.t = "none" \/ (name.t = "str" /\ name.s = <<>>)) =>
                   /\ r.status = FAIL
                   /\ r.message = Message("Vessel name is missing.", <<>>)
            /\ (name.t = "str" /\ name.s # <<>>) =>
                   /\ r.status = (IF Approved(unit.self, name.s) THEN PASS ELSE FAIL)
                   /\ r.message.args = <<name.s>>

\* "MV N" checked against an approved set that holds only "mv n".
C8_Witness ==
    /\ unit.pc = "returned"
    /\ unit.data.vessel_name = MV_N
    /\ unit.self.valid_vessels = {mv_n.s}
    /\ RuleResult(3).status = PASS
    /\ RuleResult(3).message.args = <<MV_N.s>>

\* C9: for a record whose policy_number is None or a str, Completeness Check is
\* PASS if and only if the policy number is a str with a character that is not
\* whitespace; otherwise it is FAIL with "Policy number is missing or empty.".
C9_Completeness ==
    unit.pc = "returned" =>
        LET pn == unit.data.policy_number
            r  == RuleResult(4)
        IN  pn.t \in {"none", "str"} =>
                IF pn.t = "str" /\ \E i \in 1..Len(pn.s) : pn.s[i] \notin Whitespace
                THEN r.status = PASS
                ELSE /\ r.status = FAIL
                     /\ r.message = Message("Policy number is missing or empty.", <<>>)

\* A policy number of whitespace only.
C9_Witness ==
    /\ unit.pc = "returned"
    /\ unit.data.policy_number = Blank
    /\ RuleResult(4).status = FAIL

\* ------------------------------------------------------------ properties of the pipeline

AllWhitespace(text) == \A i \in 1..Len(text) : text[i] \in Whitespace

ClientError(response) == response.status_code \in 400..499

\* extract_fields has returned or raised for request r.
ExtractEnded(r) == req[r].pc \in {"extracted", "done"} /\ req[r].ai_calls > 0

\* C1: a request whose text is empty or only whitespace is answered with a
\* client-side error; generate_content is never called and the validator never
\* runs for it.
C1_EmptyInputRejected ==
    \A r \in Requests :
        (req[r].pc # "new" /\ AllWhitespace(req[r].text)) =>
            /\ req[r].pc \in {"handler", "done"}
            /\ req[r].ai_calls = 0
            /\ req[r].ai = NotGenerated
            /\ req[r].validate_calls = 0
            /\ req[r].pc = "done" =>
                   /\ ClientError(req[r].response)
                   /\ req[r].response.body = NoBody

\* One request with an empty text and one with a whitespace-only text, both
\* answered.
C1_Witness ==
    \E r1, r2 \in Requests :
        /\ req[r1].pc = "done" /\ req[r1].text = <<>>
        /\ req[r1].response.status_code = 422
        /\ req[r2].pc = "done" /\ req[r2].text = <<" ", "\n">>
        /\ req[r2].response.status_code = 400

\* The record the parsed JSON describes meets every field constraint: the text
\* fields are null or strings, the dates parse as YYYY-MM-DD and insured_value
\* is null, a number or a numeral.
FieldsMeetConstraints(parsed) ==
    /\ parsed.kind = "dict"
    /\ \A key \in {PolicyNumberKey, VesselNameKey} :
           DictGet(parsed.pairs, key).t \in {"none", "str"}
    /\ \A key \in {StartDateKey, EndDateKey} :
           LET v == DictGet(parsed.pairs, key)
           IN  v.t = "none" \/ (v.t = "str" /\ strptime(v).exc = "")
    /\ LET v == DictGet(parsed.pairs, InsuredValueKey)
       IN  v.t \in {"none", "num"} \/ (v.t = "str" /\ IsNumeral(v.s))

\* What generate_content did makes the extraction fail.
ExtractorMustFail(ai) ==
    \/ ai.exc # ""
    \/ ~ai.response
    \/ ai.text = <<>>
    \/ ~json_loads(ai.text).ok
    \/ ~FieldsMeetConstraints(json_loads(ai.text))

\* C2: the validator is invoked only after extract_fields has returned a
\* record; when the extractor fails (provider error, empty response, text that
\* is no JSON, a field that violates its constraint) the validator is never
\* invoked and the answer is one error carrying the failure reason, with no
\* extracted data and no rule results.
C2_ValidateOnlyAfterExtract ==
    \A r \in Requests :
        /\ req[r].validate_calls > 0 =>
               /\ ExtractEnded(r)
               /\ req[r].extracted.raised = ""
               /\ ~ExtractorMustFail(req[r].ai)
        /\ (ExtractEnded(r) /\ ExtractorMustFail(req[r].ai)) =>
               /\ req[r].validate_calls = 0
               /\ req[r].extracted.raised # ""
               /\ req[r].pc = "done" =>
                      /\ req[r].response.status_code >= 400
                      /\ req[r].response.body = NoBody
                      /\ req[r].response.detail.fmt # ""
                      /\ req[r].response.detail = req[r].extracted.msg

\* One request answered with the extractor's error, another answered after
\* validation.
C2_Witness ==
    \E r1, r2 \in Requests :
        /\ req[r1].pc = "done"
        /\ req[r1].ai.text = <<Tok("{"), Lit(Str(PolicyNumberKey)), Tok(":"), Lit(HM_1)>>
        /\ req[r1].response.detail.fmt = InvalidResponse
        /\ req[r2].pc = "done"
        /\ req[r2].validate_calls = 1

\* C3: whenever extraction succeeds the request is answered 200 with the
\* extracted record and the four rule results, whatever the verdicts are.
C3_ReportIsSuccess ==
    \A r \in Requests :
        (req[r].pc = "done" /\ req[r].ai_calls > 0 /\ req[r].extracted.raised = "") =>
            /\ req[r].response.status_code = 200
            /\ req[r].response.body.extracted_data = req[r].extracted.value
            /\ Len(req[r].response.body.validation_results) = 4
            /\ \A i \in 1..4 :
                   req[r].response.body.validation_results[i].status \in {PASS, FAIL}

\* A record with every field absent: all four rules FAIL and the answer is 200.
C3_Witness ==
    \E r \in Requests :
        /\ req[r].pc = "done"
        /\ req[r].extracted.value = NoData
        /\ req[r].response.status_code = 200
        /\ Len(req[r].response.body.validation_results) = 4
        /\ \A i \in 1..4 : req[r].response.body.validation_results[i].status = FAIL

\* The float the record must hold for an insured_value the JSON gives as v.
FloatOf(v) == IF v.t = "str" THEN Num(NumeralValue(v.s)) ELSE v

\* C10: extract_fields fails closed.  When generate_content returned, it
\* returns a record only if the text is non-empty, parses as JSON and meets
\* every field constraint, and then no field the JSON gives is dropped or
\* replaced by null; it raises EmptyResponse when there is no text,
\* InvalidResponse when the text is no JSON, and ValidationFailed when the
\* parsed JSON violates a constraint.
C10_ExtractFailsClosed ==
    \A r \in Requests :
        (ExtractEnded(r) /\ req[r].ai.exc = "") =>
            LET ai     == req[r].ai
                x      == req[r].extracted
                parsed == json_loads(ai.text)
            IN  IF ~ai.response \/ ai.text = <<>>
                THEN x.raised = "ValueError" /\ x.msg.fmt = EmptyResponse
                ELSE IF ~parsed.ok
                THEN x.raised = "ValueError" /\ x.msg.fmt = InvalidResponse
                ELSE IF ~FieldsMeetConstraints(parsed)
                THEN x.raised = "ValueError" /\ x.msg.fmt = ValidationFailed
                ELSE /\ x.raised = ""
                     /\ x.value.policy_number = DictGet(parsed.pairs, PolicyNumberKey)
                     /\ x.value.vessel_name = DictGet(parsed.pairs, VesselNameKey)
                     /\ x.value.policy_start_date = DictGet(parsed.pairs, StartDateKey)
                     /\ x.value.policy_end_date = DictGet(parsed.pairs, EndDateKey)
                     /\ x.value.insured_value = FloatOf(DictGet(parsed.pairs, InsuredValueKey))
                     /\ x.value.insured_value.t \in {"none", "num"}

\* An answer whose end date is 30 February: the extraction is rejected.
C10_Witness ==
    \E r \in Requests :
        /\ ExtractEnded(r)
        /\ req[r].ai.response
        /\ json_loads(req[r].ai.text).ok
        /\ DictGet(json_loads(req[r].ai.text).pairs, EndDateKey) = D_2025_02_30
        /\ req[r].extracted.raised = "ValueError"
        /\ req[r].extracted.msg.fmt = ValidationFailed

ServerError(response) == response.status_code \in 500..599

\* C11: an extraction error is answered with a client-side error when the
\* content is at fault (empty response, text that is no JSON, a field that
\* violates its constraint) and with a server-side error when the provider
\* call itself failed.
C11_ErrorClassByCause ==
    \A r \in Requests :
        (req[r].pc = "done" /\ req[r].ai_calls > 0 /\ ExtractorMustFail(req[r].ai)) =>
            IF req[r].ai.exc # ""
            THEN ServerError(req[r].response)
            ELSE ClientError(req[r].response)

\* ------------------------------------------------------------ two calls of one validator

\* Records as ExtractedData(...) builds them, for the comparison of two calls.
PairRecords ==
    {ExtractedData(pn, vn, sd, ed, iv) :
        pn \in {None, HM_1},
        vn \in {None, MV_N, MV_X},
        sd \in {None, D_2025_11_01, D_2026_10_31},
        ed \in {None, D_2025_11_01, D_2026_10_31},
        iv \in {Num(-100), Num(1)}}

InitPair ==
    /\ app = "starting"
    /\ ai_extractor = NoObject
    /\ validator = NoObject
    /\ req = [r \in Requests |-> NewRequest]
    /\ env = NoEnvironment
    /\ \E vs \in VesselSets, data \in PairRecords :
           unit = [pc            |-> "input",
                   self          |-> DocumentValidator(vs),
                   data          |-> data,
                   outcome       |-> Return(<<>>),
                   other_data    |-> NoData,
                   other_outcome |-> Return(<<>>)]

\* validator.validate(other), a second call on the same DocumentValidator.
CallValidateAgain ==
    /\ unit.pc = "returned"
    /\ \E other \in PairRecords :
           unit' = [unit EXCEPT !.pc = "again",
                                !.other_data = other,
                                !.other_outcome = validate(unit.self, other)]
    /\ UNCHANGED <<app, ai_extractor, validator, req, env>>

NextPair == CallValidate \/ CallValidateAgain

SpecPair == InitPair /\ [][NextPair]_vars

\* The i-th result of the second call.
OtherResult(i) ==
    IF unit.pc = "again" /\ unit.other_outcome.raised = ""
       /\ Len(unit.other_outcome.value) >= i
    THEN unit.other_outcome.value[i]
    ELSE NoResult

\* The fields rule i reads.
FieldsRead(i) ==
    CASE i = 1 -> {"policy_start_date", "policy_end_date"}
      [] i = 2 -> {"insured_value"}
      [] i = 3 -> {"vessel_name"}
      [] i = 4 -> {"policy_number"}

FieldNames ==
    {"policy_number", "vessel_name", "policy_start_date", "policy_end_date",
     "insured_value"}

\* C12: the rules are independent: two records that agree on the fields a rule
\* reads get the same result from that rule, with the same approved set; so two
\* records that differ only in policy_end_date get the same Value Check,
\* Vessel Name Match and Completeness Check results.
C12_RulesIndependent ==
    unit.pc = "again" =>
        /\ \A i \in 1..4 :
               (\A f \in FieldsRead(i) : unit.data[f] = unit.other_data[f]) =>
                   /\ RuleResult(i) # NoResult
                   /\ OtherResult(i) = RuleResult(i)
        /\ (\A f \in FieldNames \ {"policy_end_date"} : unit.data[f] = unit.other_data[f]) =>
               \A i \in 2..4 : OtherResult(i) = RuleResult(i) /\ RuleResult(i) # NoResult

\* The all-PASS record and the same record with the end date equal to the start
\* date: only Date Consistency changes.
C12_Witness ==
    /\ unit.pc = "again"
    /\ unit.data = ExtractedData(HM_1, MV_N, D_2025_11_01, D_2026_10_31, Num(1))
    /\ unit.other_data = ExtractedData(HM_1, MV_N, D_2025_11_01, D_2025_11_01, Num(1))
    /\ \A i \in 1..4 : RuleResult(i).status = PASS
    /\ OtherResult(1).status = FAIL
    /\ \A i \in 2..4 : OtherResult(i).status = PASS

\* ------------------------------------------------------------ properties of the service

\* C13: a request calls the provider at most once: when extract_fields has
\* ended, with a record or with any failure, exactly one call was made, and a
\* failed extraction leaves no record from a second attempt or a fallback.
C13_SingleAttempt ==
    \A r \in Requests :
        /\ req[r].ai_calls <= 1
        /\ ExtractEnded(r) => req[r].ai_calls = 1
        /\ (ExtractEnded(r) /\ ExtractorMustFail(req[r].ai)) =>
               /\ req[r].extracted.raised # ""
               /\ req[r].extracted.value = NoData
               /\ req[r].pc = "done" => req[r].response.body = NoBody

\* A request answered after the provider call failed.
C13_Witness ==
    \E r \in Requests :
        /\ req[r].pc = "done"
        /\ req[r].ai.exc = "Exception"
        /\ req[r].ai_calls = 1
        /\ req[r].response.detail.fmt = ExtractionFailed

CredentialsAvailable == env.api_key /\ env.configured

\* valid_vessels.json exists and holds a JSON array of strings.
VesselListAvailable ==
    /\ env.file.exists
    /\ json_loads(env.file.text).ok
    /\ json_loads(env.file.text).kind = "list"
    /\ \A i \in 1..Len(json_loads(env.file.text).items) :
           json_loads(env.file.text).items[i].t = "str"

\* C14: initialisation is fail-fast: without the credentials or the vessel
\* list start-up fails and no request is ever served; a request is handled only
\* when both the extractor and the validator, with its vessel set, exist.
C14_FailFastStartup ==
    /\ (~CredentialsAvailable \/ ~VesselListAvailable) =>
           /\ app \in {"starting", "failed"}
           /\ \A r \in Requests : req[r] = NewRequest
    /\ app = "failed" => \A r \in Requests : req[r] = NewRequest
    /\ \A r \in Requests :
           req[r].pc # "new" =>
               /\ ~ai_extractor.is_none
               /\ ~validator.is_none
               /\ CredentialsAvailable
               /\ VesselListAvailable

\* Start-up that failed on the vessel list after the extractor was created.
C14_Witness ==
    /\ app = "failed"
    /\ CredentialsAvailable
    /\ ~env.file.exists
    /\ ~ai_extractor.is_none
    /\ validator.is_none

\* The set load_valid_vessels returned at start-up.
StartupVessels ==
    {json_loads(env.file.text).items[i].s : i \in 1..Len(json_loads(env.file.text).items)}

\* The answer to a request with this text and this provider answer when it is
\* the only request of the process.
SoloResponse(text, ai) ==
    IF Len(text) = 0
    THEN HTTPException(422, Message("String should have at least 1 character", <<>>))
    ELSE IF AllWhitespace(text)
    THEN HTTPException(400, Message("Document text cannot be empty", <<>>))
    ELSE FinalResponse(DocumentValidator(StartupVessels),
                       extract_fields(AIExtractor(TRUE, TRUE).value, ai))

\* C15: requests are independent: while the application serves, the approved
\* set and the two globals stay as start-up set them, whatever requests are in
\* flight, and every answer is the one the request would get alone with the
\* same text and the same provider answer.
C15_RequestsIndependent ==
    /\ app \in {"serving", "stopped"} =>
           /\ validator = DocumentValidator(StartupVessels)
           /\ ai_extractor = AIExtractor(TRUE, TRUE).value
    /\ \A r \in Requests :
           req[r].pc = "done" => req[r].response = SoloResponse(req[r].text, req[r].ai)

\* Two requests in flight at once: one answered 200 with a passing vessel
\* name, the other between extraction and its answer.
C15_Witness ==
    \E r1, r2 \in Requests :
        /\ r1 # r2
        /\ req[r1].pc = "done"
        /\ req[r1].response.status_code = 200
        /\ req[r1].response.body.validation_results[3].status = PASS
        /\ req[r2].pc = "extracted"
        /\ req[r2].extracted.raised = ""
        /\ req[r2].extracted.value.vessel_name = MV_X

====
